---- MODULE Spec2Model ----
(***************************************************************************)
(* Model of app/api/events.py of open-event-server: the owner resolver     *)
(* get_id, the visibility query EventList.query, the lifecycle validators  *)
(* validate_event / validate_date with the create and update hooks, and    *)
(* the export / image-resize side effects.                                 *)
(*                                                                         *)
(* Encoding.  Timestamps and ids are integers >= 1.  Python's None is NULL *)
(* (0) for integer-valued fields and "None" for string-valued ones; a key  *)
(* that is not in a dict is ABSENT (-1), respectively "absent".            *)
(***************************************************************************)
EXTENDS Integers, Sequences, FiniteSets, TLC

\* ------------------------------------------------------------------ bounds
MaxEvents == 2      \* event ids 1..MaxEvents
MaxUsers == 2       \* user ids 1..MaxUsers stored in the user table
MaxSub == 2         \* primary keys 1..MaxSub of every sub-resource table
MaxKeys == 2        \* scoping keys present in one view_kwargs of get_id
MaxRoles == 1       \* rows of the users_events_roles table in Init of SpecQuery
MaxTime == 2        \* timestamps range over 1..MaxTime, the clock over 0..MaxTime-1
MaxOrders == 1      \* orders placed on one event

\* ------------------------------------------------------------------ values
NULL == 0
ABSENT == -1
NoneStr == "None"
AbsentStr == "absent"

EventIds == 1..MaxEvents
UserIds == 1..MaxUsers
SubIds == 1..MaxSub
Times == 1..MaxTime

\* dict.get(key) for an integer-valued / a string-valued key
Get(v) == IF v = ABSENT THEN NULL ELSE v
GetStr(v) == IF v = AbsentStr THEN NoneStr ELSE v
\* Python truthiness of a string value (None and "" are falsy)
TruthyStr(v) == v # NoneStr /\ v # AbsentStr /\ v # ""

OWNER == "owner"
ORGANIZER == "organizer"
COORGANIZER == "coorganizer"
TRACK_ORGANIZER == "track_organizer"
REGISTRAR == "registrar"
MODERATOR == "moderator"
MARKETER == "marketer"
SALES_ADMIN == "sales_admin"
ATTENDEE == "attendee"
RoleNames == {OWNER, ORGANIZER, COORGANIZER, TRACK_ORGANIZER, REGISTRAR,
              MODERATOR, MARKETER, SALES_ADMIN, ATTENDEE}

VARIABLES
    now,        \* the wall clock, datetime.now()
    events,     \* the committed events table: id -> row (row.exists says whether stored)
    roles,      \* the users_events_roles table: set of [user, event, role]
    invites,    \* the role_invites table: set of [user, event, role, status]
    sub,        \* every sub-resource table: primary key -> stored event_id, ABSENT if no row
    pc,         \* position of the request in flight
    req,        \* the request in flight (or the last one handled)
    outcome,    \* how the last request ended: "ok", "pending" or the error raised
    jobs,       \* background jobs submitted by the request: sequence of records
    export_jobs,\* ExportJob rows created by the request: sequence of records
    clears,     \* number of clear_export_urls calls made by the request
    answer      \* the result of the last read request (query or get_id)

vars == <<now, events, roles, invites, sub, pc, req, outcome, jobs, export_jobs,
          clears, answer>>

\* ------------------------------------------------------------------ callers
\* current_user / get_jwt_identity(): id = NULL is the anonymous caller
Anonymous == [id |-> NULL, is_admin |-> FALSE, is_super_admin |-> FALSE,
              can_create |-> FALSE, can_publish |-> FALSE]
User(i, admin, super, create, publish) ==
    [id |-> i, is_admin |-> admin, is_super_admin |-> super,
     can_create |-> create, can_publish |-> publish]

is_logged_in(caller) == caller.id # NULL
is_staff(caller) == caller.is_admin \/ caller.is_super_admin

\* users_events_roles rows of user u on event e with a role in rs
HoldsRole(rl, u, e, rs) == \E r \in rl : r.user = u /\ r.event = e /\ r.role \in rs

has_access_is_admin(caller) == is_logged_in(caller) /\ is_staff(caller)
has_access_is_super_admin(caller) == is_logged_in(caller) /\ caller.is_super_admin
has_access_is_user_itself(caller, user_id) ==
    is_logged_in(caller) /\ (is_staff(caller) \/ caller.id = user_id)
has_access_is_coorganizer(caller, rl, event_id) ==
    is_logged_in(caller)
    /\ (is_staff(caller)
        \/ HoldsRole(rl, caller.id, event_id, {OWNER, ORGANIZER, COORGANIZER}))

\* ------------------------------------------------------------------ get_id
\* The branches of get_id in source order.  kind:
\*   "identifier"  if kw.get(k):            Event by identifier, id = event.id
\*   "std"         if kw.get(k) is not None: row.event_id is not None ? event_id : None
\*   "user_id"     if kw.get(k) is not None: DiscountCode by kw['discount_code_id']
\*   "noelse"      if kw.get(k) is not None: row.event_id is not None ? event_id : (nothing)
\*   "truthy"      if kw.get(k):            row.event_id ? event_id : None
\*   "truthystd"   if kw.get(k):            row.event_id is not None ? event_id : None
GetIdTable == <<
    [key |-> "identifier",               kind |-> "identifier"],
    [key |-> "sponsor_id",               kind |-> "std"],
    [key |-> "user_favourite_event_id",  kind |-> "std"],
    [key |-> "copyright_id",             kind |-> "std"],
    [key |-> "track_id",                 kind |-> "std"],
    [key |-> "session_type_id",          kind |-> "std"],
    [key |-> "faq_type_id",              kind |-> "std"],
    [key |-> "event_invoice_id",         kind |-> "std"],
    [key |-> "event_invoice_identifier", kind |-> "std"],
    [key |-> "discount_code_id",         kind |-> "std"],
    [key |-> "session_id",               kind |-> "std"],
    [key |-> "social_link_id",           kind |-> "std"],
    [key |-> "tax_id",                   kind |-> "std"],
    [key |-> "stripe_authorization_id",  kind |-> "std"],
    [key |-> "user_id",                  kind |-> "user_id"],
    [key |-> "speakers_call_id",         kind |-> "std"],
    [key |-> "ticket_id",                kind |-> "std"],
    [key |-> "ticket_tag_id",            kind |-> "std"],
    [key |-> "role_invite_id",           kind |-> "std"],
    [key |-> "users_events_role_id",     kind |-> "noelse"],
    [key |-> "access_code_id",           kind |-> "std"],
    [key |-> "speaker_id",               kind |-> "truthy"],
    [key |-> "email_notification_id",    kind |-> "truthy"],
    [key |-> "microlocation_id",         kind |-> "truthy"],
    [key |-> "attendee_id",              kind |-> "truthystd"],
    [key |-> "custom_form_id",           kind |-> "std"],
    [key |-> "faq_id",                   kind |-> "std"],
    [key |-> "order_identifier",         kind |-> "std"],
    [key |-> "feedback_id",              kind |-> "std"] >>

GetIdKeys == {GetIdTable[i].key : i \in 1..Len(GetIdTable)}

\* The user/role scopings of EventList.query in source order: the view_kwargs key,
\* the role names the join keeps, and the parameter safe_query names when the user
\* does not exist.
RoleScopes == <<
    [key |-> "user_id",                 keep |-> RoleNames \ {ATTENDEE}, param |-> "user_id"],
    [key |-> "user_owner_id",           keep |-> {OWNER},           param |-> "user_owner_id"],
    [key |-> "user_organizer_id",       keep |-> {ORGANIZER},       param |-> "user_organizer_id"],
    [key |-> "user_coorganizer_id",     keep |-> {COORGANIZER},     param |-> "user_coorganizer_id"],
    [key |-> "user_track_organizer_id", keep |-> {TRACK_ORGANIZER}, param |-> "user_organizer_id"],
    [key |-> "user_registrar_id",       keep |-> {REGISTRAR},       param |-> "user_registrar_id"],
    [key |-> "user_moderator_id",       keep |-> {MODERATOR},       param |-> "user_moderator_id"],
    [key |-> "user_marketer_id",        keep |-> {MARKETER},        param |-> "user_marketer_id"],
    [key |-> "user_sales_admin_id",     keep |-> {SALES_ADMIN},     param |-> "user_sales_admin_id"] >>
RoleScopeKeys == {RoleScopes[i].key : i \in 1..Len(RoleScopes)}

\* The classification scopings of EventList.query in source order
ClassScopes == <<"event_type_id", "event_topic_id", "event_sub_topic_id">>
ClassScopeKeys == {ClassScopes[i] : i \in 1..Len(ClassScopes)}

QueryKeys == RoleScopeKeys \cup ClassScopeKeys \cup {"discount_code_id"}
KwKeys == GetIdKeys \cup QueryKeys \cup {"id"}

\* a view_kwargs dict: key -> value, ABSENT for a key that is not in it
EmptyKw == [k \in KwKeys |-> ABSENT]

\* safe_query_kwargs(Model, view_kwargs, key): the row's event_id, or ABSENT if no row
safe_query_kwargs(tbl, v) == IF v \in DOMAIN tbl THEN tbl[v] ELSE ABSENT

NotFound(param) == "NotFound:" \o param

\* `if row.event_id is not None: id = event_id else: id = None`
SetIdElse(kw, event_id) == [kw EXCEPT !["id"] = event_id]

\* `if row.event_id is not None: id = event_id` (users_events_role_id: no else branch)
SetIdNoElse(kw, event_id) ==
    IF event_id # NULL THEN [kw EXCEPT !["id"] = event_id] ELSE kw

\* one branch of get_id applied to acc = [kw, err]; evs is the events table
GetIdBranch(acc, entry, tbl, evs) ==
    LET kw == acc.kw
        v  == kw[entry.key]
        row == safe_query_kwargs(tbl, v)
    IN  IF acc.err # "ok" THEN acc
        ELSE IF entry.kind = "identifier" THEN
            IF Get(v) = NULL THEN acc
            ELSE IF v \in DOMAIN evs /\ evs[v].exists
                 THEN [acc EXCEPT !.kw = [kw EXCEPT !["id"] = v]]
                 ELSE [acc EXCEPT !.err = NotFound(entry.key)]
        ELSE IF entry.kind = "user_id" THEN
            IF v = ABSENT THEN acc
            ELSE IF kw["discount_code_id"] = ABSENT THEN [acc EXCEPT !.err = "KeyError"]
            ELSE LET dc == safe_query_kwargs(tbl, kw["discount_code_id"])
                 IN  IF dc = ABSENT THEN [acc EXCEPT !.err = NotFound("discount_code_id")]
                     ELSE [acc EXCEPT !.kw = SetIdElse(kw, dc)]
        ELSE IF (entry.kind \in {"std", "noelse"} /\ v = ABSENT)
                \/ (entry.kind \in {"truthy", "truthystd"} /\ Get(v) = NULL) THEN acc
        ELSE IF row = ABSENT THEN [acc EXCEPT !.err = NotFound(entry.key)]
        ELSE IF entry.kind = "noelse" THEN [acc EXCEPT !.kw = SetIdNoElse(kw, row)]
        ELSE [acc EXCEPT !.kw = SetIdElse(kw, row)]

RECURSIVE GetIdFrom(_, _, _, _)
GetIdFrom(i, acc, tbl, evs) ==
    IF i > Len(GetIdTable) THEN acc
    ELSE GetIdFrom(i + 1, GetIdBranch(acc, GetIdTable[i], tbl, evs), tbl, evs)

\* get_id(view_kwargs): [kw |-> the mutated view_kwargs, err |-> "ok" or the error]
get_id(kw, tbl, evs) == GetIdFrom(1, [kw |-> kw, err |-> "ok"], tbl, evs)

\* ------------------------------------------------------------------ events
\* A row of the events table.  orders is len(event.orders).
NoEvent ==
    [exists |-> FALSE, name |-> "", state |-> "draft",
     starts_at |-> NULL, ends_at |-> NULL, deleted_at |-> NULL, orders |-> 0,
     schedule_published_on |-> NULL, original_image_url |-> NoneStr,
     ical_url |-> NoneStr, xcal_url |-> NoneStr, pentabarf_url |-> NoneStr,
     event_type_id |-> NULL, event_topic_id |-> NULL, event_sub_topic_id |-> NULL,
     discount_code_id |-> NULL]

Stored(evs) == {e \in DOMAIN evs : evs[e].exists}

\* ------------------------------------------------------------------ EventList.query
\* query_ = session.query(Event), restricted to published unless the caller is staff
BaseQuery(caller, evs) ==
    IF caller.id = NULL \/ ~is_staff(caller)
    THEN {e \in Stored(evs) : evs[e].state = "published"}
    ELSE Stored(evs)

\* query2: the events on which the caller is owner, organizer or co-organizer
ManagedQueryMutant(caller, evs, rl) ==
    {e \in Stored(evs) : HoldsRole(rl, caller.id, e, {COORGANIZER, ORGANIZER})}
ManagedQuery(caller, evs, rl) ==
    {e \in Stored(evs) : HoldsRole(rl, caller.id, e, {COORGANIZER, ORGANIZER, OWNER})}

\* query_ after the optional union with query2
UnionQuery(caller, evs, rl) ==
    IF is_logged_in(caller)
    THEN BaseQuery(caller, evs) \cup ManagedQuery(caller, evs, rl)
    ELSE BaseQuery(caller, evs)

\* one `if view_kwargs.get('user_..._id') and 'GET' in request.method` block
RoleScopeBranch(acc, scope, caller, kw, method, rl) ==
    LET target == kw[scope.key]
    IN  IF acc.err # "ok" \/ Get(target) = NULL \/ method # "GET" THEN acc
        ELSE IF ~has_access_is_user_itself(caller, target)
             THEN [acc EXCEPT !.err = "Forbidden"]
        ELSE IF target \notin UserIds
             THEN [acc EXCEPT !.err = NotFound(scope.param)]
        ELSE [acc EXCEPT !.rows = {e \in acc.rows : HoldsRole(rl, target, e, scope.keep)}]

RECURSIVE RoleScopesFrom(_, _, _, _, _, _)
RoleScopesFrom(i, acc, caller, kw, method, rl) ==
    IF i > Len(RoleScopes) THEN acc
    ELSE RoleScopesFrom(i + 1, RoleScopeBranch(acc, RoleScopes[i], caller, kw, method, rl),
                        caller, kw, method, rl)

\* one `if view_kwargs.get('event_..._id') and 'GET' in request.method` block
ClassScopeBranch(acc, key, kw, method, evs) ==
    IF acc.err # "ok" \/ Get(kw[key]) = NULL \/ method # "GET" THEN acc
    ELSE [acc EXCEPT !.rows = {e \in Stored(evs) : evs[e][key] = kw[key]}]

RECURSIVE ClassScopesFrom(_, _, _, _, _)
ClassScopesFrom(i, acc, kw, method, evs) ==
    IF i > Len(ClassScopes) THEN acc
    ELSE ClassScopesFrom(i + 1, ClassScopeBranch(acc, ClassScopes[i], kw, method, evs),
                         kw, method, evs)

\* the `if view_kwargs.get('discount_code_id') and 'GET' in request.method` block
DiscountScopeBranch(acc, caller, kw, method, evs, rl, tbl) ==
    LET r == get_id(kw, tbl, evs)
    IN  IF acc.err # "ok" \/ Get(kw["discount_code_id"]) = NULL \/ method # "GET" THEN acc
        ELSE IF r.err # "ok" THEN [acc EXCEPT !.err = r.err]
        ELSE IF ~has_access_is_coorganizer(caller, rl, r.kw["id"])
             THEN [acc EXCEPT !.err = "Forbidden"]
        ELSE [acc EXCEPT !.rows =
                {e \in Stored(evs) : evs[e].discount_code_id = kw["discount_code_id"]}]

\* EventList.query(view_kwargs): [rows |-> ids of the events selected, err |-> ...]
query(caller, kw, method, evs, rl, tbl) ==
    LET q0 == [rows |-> UnionQuery(caller, evs, rl), err |-> "ok"]
        q1 == RoleScopesFrom(1, q0, caller, kw, method, rl)
        q2 == ClassScopesFrom(1, q1, kw, method, evs)
        q3 == DiscountScopeBranch(q2, caller, kw, method, evs, rl, tbl)
    IN  IF q3.err = "ok" THEN q3 ELSE [rows |-> {}, err |-> q3.err]

\* ------------------------------------------------------------------ lifecycle validators
\* A payload `data`: every key of the event schema the handlers read, ABSENT /
\* AbsentStr when the key is not in the dict.
NoData ==
    [name |-> AbsentStr, state |-> AbsentStr, starts_at |-> ABSENT, ends_at |-> ABSENT,
     deleted_at |-> ABSENT, original_image_url |-> AbsentStr,
     schedule_published_on |-> ABSENT]

ConflictName == "Conflict:/data/attributes/name"
ErrDate == "Unprocessable:/data/attributes/date"
ErrEndsAt == "Unprocessable:/data/attributes/ends-at"
ErrStartsAt == "Unprocessable:/data/attributes/starts-at"
ForbiddenVerify == "Forbidden:Please verify your Email"
ForbiddenPublish == "Forbidden:Only verified accounts can publish events"
ForbiddenOrders == "Forbidden:Event associated with orders cannot be deleted"

\* mutant: the name check is dropped
validate_event_no_name(user, data) ==
    IF ~user.can_create THEN ForbiddenVerify
    ELSE IF GetStr(data.state) = "published" /\ ~user.can_publish THEN ForbiddenPublish
    ELSE "ok"

\* validate_event(user, data): "ok" or the error raised
validate_event(user, data) ==
    IF ~user.can_create THEN ForbiddenVerify
    ELSE IF GetStr(data.state) = "published" /\ ~user.can_publish THEN ForbiddenPublish
    ELSE IF ~TruthyStr(data.name) /\ GetStr(data.state) = "published" THEN ConflictName
    ELSE "ok"

\* mutant: the order check is `>` instead of `>=`
validate_date_gt(event, data, t) ==
    LET d1 == IF event.exists /\ data.starts_at = ABSENT
              THEN [data EXCEPT !.starts_at = event.starts_at] ELSE data
        d2 == IF event.exists /\ d1.ends_at = ABSENT
              THEN [d1 EXCEPT !.ends_at = event.ends_at] ELSE d1
    IN  IF Get(d2.starts_at) = NULL \/ Get(d2.ends_at) = NULL
        THEN [data |-> d2, err |-> ErrDate]
        ELSE IF d2.starts_at > d2.ends_at
        THEN [data |-> d2, err |-> ErrEndsAt]
        ELSE IF d2.starts_at <= t
        THEN IF event.exists /\ event.deleted_at # NULL /\ Get(d2.deleted_at) = NULL
             THEN [data |-> [d2 EXCEPT !.state = "draft"], err |-> "ok"]
             ELSE IF event.exists /\ event.deleted_at = NULL /\ Get(d2.deleted_at) # NULL
             THEN [data |-> d2, err |-> "ok"]
             ELSE [data |-> d2, err |-> ErrStartsAt]
        ELSE [data |-> d2, err |-> "ok"]

\* validate_date(event, data) at clock t: [data |-> data as mutated, err |-> ...];
\* event = NoEvent stands for None
validate_date(event, data, t) ==
    LET d1 == IF event.exists /\ data.starts_at = ABSENT
              THEN [data EXCEPT !.starts_at = event.starts_at] ELSE data
        d2 == IF event.exists /\ d1.ends_at = ABSENT
              THEN [d1 EXCEPT !.ends_at = event.ends_at] ELSE d1
    IN  IF Get(d2.starts_at) = NULL \/ Get(d2.ends_at) = NULL
        THEN [data |-> d2, err |-> ErrDate]
        ELSE IF d2.starts_at >= d2.ends_at
        THEN [data |-> d2, err |-> ErrEndsAt]
        ELSE IF d2.starts_at <= t
        THEN IF event.exists /\ event.deleted_at # NULL /\ Get(d2.deleted_at) = NULL
             THEN [data |-> [d2 EXCEPT !.state = "draft"], err |-> "ok"]
             ELSE IF event.exists /\ event.deleted_at = NULL /\ Get(d2.deleted_at) # NULL
             THEN [data |-> d2, err |-> "ok"]
             ELSE [data |-> d2, err |-> ErrStartsAt]
        ELSE [data |-> d2, err |-> "ok"]

\* EventList.before_post(args, kwargs, data): [data, err]
before_post(user, data, t) ==
    LET e1 == validate_event(user, data)
    IN  IF e1 # "ok" THEN [data |-> data, err |-> e1]
        ELSE IF data.state = AbsentStr THEN [data |-> data, err |-> "KeyError"]
        ELSE IF data.state # "draft" THEN validate_date(NoEvent, data, t)
        ELSE [data |-> data, err |-> "ok"]

\* EventDetail.before_patch(args, kwargs, data)
before_patch(user, data) == validate_event(user, data)

\* mutant: only an explicit deleted_at = null counts as a restore
is_event_restored_explicit(event, data) ==
    event.deleted_at # NULL /\ data.deleted_at = NULL

\* mutant: an omitted date counts as unchanged
is_date_updated_present(event, data) ==
    \/ (data.starts_at # ABSENT /\ data.starts_at # event.starts_at)
    \/ (data.ends_at # ABSENT /\ data.ends_at # event.ends_at)

\* the condition under which before_update_object calls validate_date
is_date_updated(event, data) ==
    Get(data.starts_at) # event.starts_at \/ Get(data.ends_at) # event.ends_at
is_draft_published(event, data) ==
    event.state = "draft" /\ GetStr(data.state) = "published"
is_event_restored(event, data) ==
    event.deleted_at # NULL /\ Get(data.deleted_at) = NULL

\* does before_update_object submit the image-resize job
image_changed(event, data) ==
    TruthyStr(data.original_image_url)
    /\ data.original_image_url # event.original_image_url

\* EventDetail.before_update_object(event, data, view_kwargs) at clock t:
\* [obj |-> event as mutated, data |-> data as mutated, err, resize |-> job submitted]
before_update_object(event, data, caller, t) ==
    LET vd == IF is_date_updated(event, data) \/ is_draft_published(event, data)
                 \/ is_event_restored(event, data)
              THEN validate_date(event, data, t)
              ELSE [data |-> data, err |-> "ok"]
        d == vd.data
        touch == has_access_is_admin(caller) /\ Get(d.deleted_at) # event.deleted_at
    IN  IF vd.err # "ok"
        THEN [obj |-> event, data |-> d, err |-> vd.err, resize |-> FALSE]
        ELSE IF touch /\ event.orders # 0 /\ ~has_access_is_super_admin(caller)
        THEN [obj |-> event, data |-> d, err |-> ForbiddenOrders, resize |-> FALSE]
        ELSE [obj |-> IF touch THEN [event EXCEPT !.deleted_at = Get(d.deleted_at)]
                      ELSE event,
              data |-> d, err |-> "ok", resize |-> image_changed(event, d)]

\* the data layer's update: setattr(obj, field, value) for every field in data
apply_data(obj, data) ==
    [obj EXCEPT
        !.name = IF data.name = AbsentStr THEN @ ELSE data.name,
        !.state = IF data.state = AbsentStr THEN @ ELSE data.state,
        !.starts_at = IF data.starts_at = ABSENT THEN @ ELSE data.starts_at,
        !.ends_at = IF data.ends_at = ABSENT THEN @ ELSE data.ends_at,
        !.deleted_at = IF data.deleted_at = ABSENT THEN @ ELSE data.deleted_at,
        !.original_image_url =
            IF data.original_image_url = AbsentStr THEN @ ELSE data.original_image_url,
        !.schedule_published_on =
            IF data.schedule_published_on = ABSENT THEN @ ELSE data.schedule_published_on]

\* the data layer's create: Event(**data)
new_event(data) ==
    apply_data([NoEvent EXCEPT !.exists = TRUE, !.name = NoneStr, !.state = NoneStr], data)

\* ------------------------------------------------------------------ side effects
Job(kind, event_id) == [kind |-> kind, event_id |-> event_id]

\* mutant: the pentabarf export is not started
start_export_tasks_two(event_id) ==
    <<Job("export_xcal", event_id), Job("export_ical", event_id)>>

\* start_export_tasks(event): the jobs submitted, in order
start_export_tasks(event_id) ==
    <<Job("export_xcal", event_id), Job("export_ical", event_id),
      Job("export_pentabarf", event_id)>>

\* start_image_resizing_tasks(event, original_image_url)
start_image_resizing_tasks(event_id) == <<Job("resize_event_images", event_id)>>

\* mutant: the pentabarf URL is not cleared
clear_export_urls_two(event) ==
    [event EXCEPT !.ical_url = NoneStr, !.xcal_url = NoneStr]

\* clear_export_urls(event), save_to_db included
clear_export_urls(event) ==
    [event EXCEPT !.ical_url = NoneStr, !.xcal_url = NoneStr, !.pentabarf_url = NoneStr]

\* `event.state == 'published' and event.schedule_published_on`
published_and_scheduled(event) ==
    event.state = "published" /\ event.schedule_published_on # NULL

\* ------------------------------------------------------------------ requests
\* The create/update specifications follow one event, the one addressed by the
\* request: the handlers read and write no other row of the events table.
LiveIds == {1}

NoReq == [op |-> "none", caller |-> Anonymous, id |-> NULL, data |-> NoData,
          work |-> NoData, obj |-> NoEvent]
NoAnswer == [op |-> "none", caller |-> Anonymous, kw |-> EmptyKw,
             rows |-> {}, err |-> "ok"]

\* the NOT NULL columns of the events table
persistable(event) == event.starts_at # NULL /\ event.ends_at # NULL

\* id the database gives the next event
NextId == CHOOSE i \in LiveIds : ~events[i].exists /\ \A j \in 1..(i - 1) : events[j].exists

\* datetime.now() advances (between requests)
Tick ==
    /\ pc = "idle"
    /\ now < MaxTime - 1
    /\ now' = now + 1
    /\ UNCHANGED <<events, roles, invites, sub, pc, req, outcome, jobs, export_jobs,
                   clears, answer>>

\* an order is placed on a stored event (the orders API)
PlaceOrder ==
    /\ pc = "idle"
    /\ \E e \in Stored(events) :
        /\ events[e].orders < MaxOrders
        /\ events' = [events EXCEPT ![e].orders = @ + 1]
    /\ UNCHANGED <<now, roles, invites, sub, pc, req, outcome, jobs, export_jobs,
                   clears, answer>>

\* the response is sent: the request is over
Respond ==
    /\ pc = "respond"
    /\ pc' = "idle"
    /\ req' = NoReq
    /\ outcome' = "none"
    /\ jobs' = <<>> /\ export_jobs' = <<>> /\ clears' = 0
    /\ answer' = NoAnswer
    /\ UNCHANGED <<now, events, roles, invites, sub>>

\* POST /events: the request arrives and EventList.before_post runs
BeforePost(P, C) ==
    /\ pc = "idle"
    /\ \E i \in LiveIds : ~events[i].exists
    /\ \E caller \in C, data \in P :
        LET r == before_post(caller, data, now)
        IN  /\ req' = [op |-> "post", caller |-> caller, id |-> NextId, data |-> data,
                       work |-> r.data, obj |-> new_event(r.data)]
            /\ outcome' = IF r.err = "ok" THEN "pending" ELSE r.err
            /\ pc' = IF r.err = "ok" THEN "create_object" ELSE "respond"
    /\ UNCHANGED <<now, events, roles, invites, sub, jobs, export_jobs, clears, answer>>

\* the data layer's create_object: session.add(obj), session.commit() succeeds
CreateObject ==
    /\ pc = "create_object"
    /\ persistable(req.obj)
    /\ events' = [events EXCEPT ![req.id] = req.obj]
    /\ pc' = "after_create_object"
    /\ UNCHANGED <<now, roles, invites, sub, req, outcome, jobs, export_jobs, clears,
                   answer>>

\* session.commit() fails: rollback, the request ends in an error
CreateFails ==
    /\ pc = "create_object"
    /\ pc' = "respond"
    /\ outcome' = "commit-failed"
    /\ UNCHANGED <<now, events, roles, invites, sub, req, jobs, export_jobs, clears,
                   answer>>

\* mutant: the owner role assignment is not saved
AfterCreateObjectNoRole ==
    /\ pc = "after_create_object"
    /\ LET event == events[req.id]
           exports == IF published_and_scheduled(event)
                      THEN start_export_tasks(req.id) ELSE <<>>
           resize == IF TruthyStr(req.work.original_image_url)
                     THEN start_image_resizing_tasks(req.id) ELSE <<>>
       IN  /\ invites' = invites \cup {[user |-> req.caller.id, event |-> req.id,
                                        role |-> OWNER, status |-> "accepted"]}
           /\ jobs' = jobs \o exports \o resize
           /\ export_jobs' = export_jobs \o exports
    /\ pc' = "respond"
    /\ outcome' = "ok"
    /\ UNCHANGED <<now, events, roles, sub, req, clears, answer>>

\* EventList.after_create_object(event, data, view_kwargs)
AfterCreateObject ==
    /\ pc = "after_create_object"
    /\ LET event == events[req.id]
           exports == IF published_and_scheduled(event)
                      THEN start_export_tasks(req.id) ELSE <<>>
           resize == IF TruthyStr(req.work.original_image_url)
                     THEN start_image_resizing_tasks(req.id) ELSE <<>>
       IN  /\ roles' = roles \cup {[user |-> req.caller.id, event |-> req.id,
                                    role |-> OWNER]}
           /\ invites' = invites \cup {[user |-> req.caller.id, event |-> req.id,
                                        role |-> OWNER, status |-> "accepted"]}
           /\ jobs' = jobs \o exports \o resize
           /\ export_jobs' = export_jobs \o exports
    /\ pc' = "respond"
    /\ outcome' = "ok"
    /\ UNCHANGED <<now, events, sub, req, clears, answer>>

\* PATCH /events/<id>: the request arrives, the is_coorganizer permission is
\* checked and EventDetail.before_patch runs
BeforePatch(P, C) ==
    /\ pc = "idle"
    /\ \E caller \in C, id \in Stored(events) \cap LiveIds, data \in P :
        LET err == IF ~has_access_is_coorganizer(caller, roles, id)
                   THEN "Forbidden:permission"
                   ELSE before_patch(caller, data)
        IN  /\ req' = [op |-> "patch", caller |-> caller, id |-> id, data |-> data,
                       work |-> data, obj |-> events[id]]
            /\ outcome' = IF err = "ok" THEN "pending" ELSE err
            /\ pc' = IF err = "ok" THEN "before_update_object" ELSE "respond"
    /\ UNCHANGED <<now, events, roles, invites, sub, jobs, export_jobs, clears, answer>>

\* EventDetail.before_update_object(event, data, view_kwargs)
BeforeUpdateObject ==
    /\ pc = "before_update_object"
    /\ LET r == before_update_object(req.obj, req.work, req.caller, now)
       IN  /\ req' = [req EXCEPT !.obj = r.obj, !.work = r.data]
           /\ outcome' = IF r.err = "ok" THEN "pending" ELSE r.err
           /\ pc' = IF r.err = "ok" THEN "update_object" ELSE "respond"
           /\ jobs' = IF r.resize THEN jobs \o start_image_resizing_tasks(req.id)
                      ELSE jobs
    /\ UNCHANGED <<now, events, roles, invites, sub, export_jobs, clears, answer>>

\* the data layer's update_object: setattr for every field, session.commit() succeeds
UpdateObject ==
    /\ pc = "update_object"
    /\ events' = [events EXCEPT ![req.id] = apply_data(req.obj, req.work)]
    /\ pc' = "after_update_object"
    /\ UNCHANGED <<now, roles, invites, sub, req, outcome, jobs, export_jobs, clears,
                   answer>>

\* session.commit() fails: rollback, the request ends in an error
UpdateFails ==
    /\ pc = "update_object"
    /\ pc' = "respond"
    /\ outcome' = "commit-failed"
    /\ UNCHANGED <<now, events, roles, invites, sub, req, jobs, export_jobs, clears,
                   answer>>

\* EventDetail.after_update_object(event, data, view_kwargs)
AfterUpdateObject ==
    /\ pc = "after_update_object"
    /\ LET event == events[req.id]
       IN  IF published_and_scheduled(event)
           THEN /\ jobs' = jobs \o start_export_tasks(req.id)
                /\ export_jobs' = export_jobs \o start_export_tasks(req.id)
                /\ UNCHANGED <<events, clears>>
           ELSE /\ events' = [events EXCEPT ![req.id] = clear_export_urls(event)]
                /\ clears' = clears + 1
                /\ UNCHANGED <<jobs, export_jobs>>
    /\ pc' = "respond"
    /\ outcome' = "ok"
    /\ UNCHANGED <<now, roles, invites, sub, req, answer>>

\* ------------------------------------------------------------------ the lifecycle specification
\* the caller of a write: user 1 with each combination of privileges the handlers test
LifeCallers ==
    {User(1, FALSE, FALSE, TRUE, TRUE), User(1, FALSE, FALSE, FALSE, FALSE),
     User(1, FALSE, FALSE, TRUE, FALSE), User(1, TRUE, FALSE, TRUE, TRUE),
     User(1, TRUE, TRUE, TRUE, TRUE)}

\* payloads that vary what the validators read
LifePayloads ==
    {[NoData EXCEPT !.name = n, !.state = s, !.starts_at = a, !.ends_at = b,
                    !.deleted_at = d] :
        n \in {AbsentStr, "", "n"}, s \in {AbsentStr, "draft", "published"},
        a \in {ABSENT} \cup Times, b \in {ABSENT} \cup Times,
        d \in {ABSENT, NULL} \cup Times}

InitLife ==
    /\ now = 0
    /\ events = [e \in EventIds |-> NoEvent]
    /\ roles = {}
    /\ invites = {}
    /\ sub = [i \in SubIds |-> ABSENT]
    /\ pc = "idle"
    /\ req = NoReq
    /\ outcome = "none"
    /\ jobs = <<>>
    /\ export_jobs = <<>>
    /\ clears = 0
    /\ answer = NoAnswer

NextLife ==
    \/ Tick
    \/ PlaceOrder
    \/ BeforePost(LifePayloads, LifeCallers)
    \/ CreateObject
    \/ CreateFails
    \/ AfterCreateObject
    \/ BeforePatch(LifePayloads, LifeCallers)
    \/ BeforeUpdateObject
    \/ UpdateObject
    \/ UpdateFails
    \/ AfterUpdateObject
    \/ Respond

SpecLife == InitLife /\ [][NextLife]_vars

\* ------------------------------------------------------------------ the effects specification
\* a verified organizer and an admin
EffectCallers == {User(1, FALSE, FALSE, TRUE, TRUE), User(1, TRUE, FALSE, TRUE, TRUE)}

\* payloads that vary what the side effects read; on create the dates are 1 < MaxTime
EffectPayloads ==
    {[NoData EXCEPT !.name = "n", !.state = s, !.starts_at = a, !.ends_at = b,
                    !.schedule_published_on = p, !.original_image_url = u] :
        s \in {AbsentStr, "draft", "published"},
        a \in {ABSENT, 1}, b \in {ABSENT, MaxTime},
        p \in {ABSENT, NULL, 1}, u \in {AbsentStr, "", "a.png", "b.png"}}

NextEffects ==
    \/ Tick
    \/ BeforePost(EffectPayloads, EffectCallers)
    \/ CreateObject
    \/ CreateFails
    \/ AfterCreateObject
    \/ BeforePatch(EffectPayloads, EffectCallers)
    \/ BeforeUpdateObject
    \/ UpdateObject
    \/ UpdateFails
    \/ AfterUpdateObject
    \/ Respond

SpecEffects == InitLife /\ [][NextEffects]_vars

\* ------------------------------------------------------------------ the query specification
\* sets of at most n elements of S
RECURSIVE UpTo(_, _)
UpTo(S, n) == IF n = 0 THEN {{}} ELSE LET P == UpTo(S, n - 1)
                                      IN  P \cup {s \cup {x} : s \in P, x \in S}

RoleRows == [user : UserIds, event : EventIds, role : RoleNames]

\* event e is classified under type e, topic e and sub-topic e, and carries discount code e
QueryRow(e, st) ==
    [NoEvent EXCEPT !.exists = TRUE, !.name = "n", !.state = st, !.starts_at = 1,
                    !.ends_at = MaxTime, !.event_type_id = e, !.event_topic_id = e,
                    !.event_sub_topic_id = e, !.discount_code_id = e]

\* the caller of a list request: anonymous, or user 1 as ordinary user or as admin
QueryCallers ==
    {Anonymous, User(1, FALSE, FALSE, TRUE, TRUE), User(1, TRUE, FALSE, TRUE, TRUE)}

\* the view_kwargs of the list routes: no scoping key, or one of them
QueryKwargs ==
    {EmptyKw}
    \cup {[EmptyKw EXCEPT ![key] = u] :
            key \in RoleScopeKeys, u \in 1..(MaxUsers + 1)}
    \cup {[EmptyKw EXCEPT ![key] = c] : key \in ClassScopeKeys, c \in EventIds}
    \cup {[EmptyKw EXCEPT !["discount_code_id"] = c] : c \in SubIds}

InitQuery ==
    /\ now = 0
    /\ \E st \in [EventIds -> {"none", "draft", "published"}] :
        events = [e \in EventIds |->
                    IF st[e] = "none" THEN NoEvent ELSE QueryRow(e, st[e])]
    /\ roles \in UpTo(RoleRows, MaxRoles)
    /\ invites = {}
    /\ sub = [i \in SubIds |-> IF i \in EventIds THEN i ELSE NULL]
    /\ pc = "idle"
    /\ req = NoReq
    /\ outcome = "none"
    /\ jobs = <<>>
    /\ export_jobs = <<>>
    /\ clears = 0
    /\ answer = NoAnswer

\* GET on a list route whose view_kwargs are in K: EventList.query(view_kwargs)
ListEvents(K) ==
    /\ pc = "idle"
    /\ \E caller \in QueryCallers, kw \in K :
        LET q == query(caller, kw, "GET", events, roles, sub)
        IN  answer' = [op |-> "query", caller |-> caller, kw |-> kw,
                       rows |-> q.rows, err |-> q.err]
    /\ pc' = "respond"
    /\ UNCHANGED <<now, events, roles, invites, sub, req, outcome, jobs, export_jobs,
                   clears>>

NextQuery ==
    \/ ListEvents(QueryKwargs)
    \/ Respond

SpecQuery == InitQuery /\ [][NextQuery]_vars

\* the unscoped list route /events alone
NextUnscoped ==
    \/ ListEvents({EmptyKw})
    \/ Respond

SpecUnscoped == InitQuery /\ [][NextUnscoped]_vars

\* ------------------------------------------------------------------ the get_id specification
\* the view_kwargs of the detail routes: at most MaxKeys scoping keys, and
\* possibly the id of the route /events/<id>
InitGetId ==
    /\ now = 0
    /\ \E S \in SUBSET EventIds :
        events = [e \in EventIds |-> IF e \in S THEN QueryRow(e, "published") ELSE NoEvent]
    /\ roles = {}
    /\ invites = {}
    /\ sub \in [SubIds -> {ABSENT, NULL} \cup EventIds]
    /\ pc = "idle"
    /\ req = NoReq
    /\ outcome = "none"
    /\ jobs = <<>>
    /\ export_jobs = <<>>
    /\ clears = 0
    /\ answer = NoAnswer

\* a detail route resolves its event: EventDetail.before_get_object -> get_id(view_kwargs)
ResolveOwner ==
    /\ pc = "idle"
    /\ \E ks \in UpTo(GetIdKeys, MaxKeys), pre \in {ABSENT} \cup EventIds :
       \E vals \in [ks -> SubIds] :
        LET kw == [k \in KwKeys |-> IF k \in ks THEN vals[k]
                                    ELSE IF k = "id" THEN pre ELSE ABSENT]
            r == get_id(kw, sub, events)
        IN  answer' = [op |-> "get_id", caller |-> Anonymous, kw |-> kw,
                       rows |-> IF r.err = "ok" THEN {r.kw["id"]} ELSE {}, err |-> r.err]
    /\ pc' = "respond"
    /\ UNCHANGED <<now, events, roles, invites, sub, req, outcome, jobs, export_jobs,
                   clears>>

NextGetId ==
    \/ ResolveOwner
    \/ Respond

SpecGetId == InitGetId /\ [][NextGetId]_vars

\* ------------------------------------------------------------------ the exports specification
\* the export URL a finished export task writes on the event
ExportUrlOf ==
    [k \in {"export_xcal", "export_ical", "export_pentabarf"} |->
        CASE k = "export_xcal" -> "xcal_url"
          [] k = "export_ical" -> "ical_url"
          [] k = "export_pentabarf" -> "pentabarf_url"]

\* a background export task of an earlier request finishes and stores its file's URL
ExportTaskDone ==
    /\ pc = "idle"
    /\ \E e \in Stored(events), k \in DOMAIN ExportUrlOf :
        /\ events[e][ExportUrlOf[k]] = NoneStr
        /\ events' = [events EXCEPT ![e][ExportUrlOf[k]] = "file"]
    /\ UNCHANGED <<now, roles, invites, sub, pc, req, outcome, jobs, export_jobs,
                   clears, answer>>

NextExports ==
    \/ Tick
    \/ ExportTaskDone
    \/ BeforePost(EffectPayloads, EffectCallers)
    \/ CreateObject
    \/ CreateFails
    \/ AfterCreateObject
    \/ BeforePatch(EffectPayloads, EffectCallers)
    \/ BeforeUpdateObject
    \/ UpdateObject
    \/ UpdateFails
    \/ AfterUpdateObject
    \/ Respond

SpecExports == InitLife /\ [][NextExports]_vars

\* ------------------------------------------------------------------ the ownership specification
\* a role assignment is removed (the users-events-roles API)
RevokeRole ==
    /\ pc = "idle"
    /\ \E r \in roles : roles' = roles \ {r}
    /\ UNCHANGED <<now, events, invites, sub, pc, req, outcome, jobs, export_jobs,
                   clears, answer>>

\* events are created and updated, role assignments removed, and the unscoped list
\* /events is read in between
NextOwner ==
    \/ Tick
    \/ RevokeRole
    \/ BeforePost(EffectPayloads, EffectCallers)
    \/ CreateObject
    \/ CreateFails
    \/ AfterCreateObject
    \/ BeforePatch(EffectPayloads, EffectCallers)
    \/ BeforeUpdateObject
    \/ UpdateObject
    \/ UpdateFails
    \/ AfterUpdateObject
    \/ ListEvents({EmptyKw})
    \/ Respond

SpecOwner == InitLife /\ [][NextOwner]_vars

\* ------------------------------------------------------------------ the dates specification
\* a verified organizer and a super admin
DateCallers == {User(1, FALSE, FALSE, TRUE, TRUE), User(1, TRUE, TRUE, TRUE, TRUE)}

\* payloads whose dates and deleted_at are omitted, null or set
DatePayloads ==
    {[NoData EXCEPT !.name = n, !.state = s, !.starts_at = a, !.ends_at = b,
                    !.deleted_at = d] :
        n \in {AbsentStr, "n"}, s \in {AbsentStr, "draft", "published"},
        a \in {ABSENT, NULL} \cup Times, b \in {ABSENT, NULL} \cup Times,
        d \in {ABSENT, NULL} \cup Times}

NextDates ==
    \/ Tick
    \/ BeforePost(DatePayloads, DateCallers)
    \/ CreateObject
    \/ CreateFails
    \/ AfterCreateObject
    \/ BeforePatch(DatePayloads, DateCallers)
    \/ BeforeUpdateObject
    \/ UpdateObject
    \/ UpdateFails
    \/ AfterUpdateObject
    \/ Respond

SpecDates == InitLife /\ [][NextDates]_vars

\* ================================================================== claims
ScopeKeysOf(kw) == {k \in KwKeys \ {"id"} : kw[k] # ABSENT}

\* C1: for an anonymous caller the event query never contains an event with
\* state = draft, whatever the route scoping and the stored events.
C1_AnonymousNeverSeesDraft ==
    (answer.op = "query" /\ answer.caller.id = NULL)
        => \A e \in answer.rows : events[e].state # "draft"

\* C2: for an authenticated non-staff caller and an unscoped list request the
\* query returns exactly the published events plus the events on which the caller
\* is owner, organizer or co-organizer.
C2_UnscopedNonStaffSeesPublishedAndManaged ==
    (/\ answer.op = "query"
     /\ answer.caller.id # NULL
     /\ ~answer.caller.is_admin /\ ~answer.caller.is_super_admin
     /\ answer.kw = EmptyKw)
        => /\ answer.err = "ok"
           /\ answer.rows =
                {e \in EventIds :
                    /\ events[e].exists
                    /\ \/ events[e].state = "published"
                       \/ \E r \in roles :
                            /\ r.user = answer.caller.id /\ r.event = e
                            /\ r.role \in {"owner", "organizer", "coorganizer"}}

\* C2 witness: the caller's own draft is listed, a draft that is not theirs is not.
C2_Witness ==
    /\ answer.op = "query" /\ answer.kw = EmptyKw
    /\ answer.caller.id = 1 /\ ~answer.caller.is_admin /\ ~answer.caller.is_super_admin
    /\ events[1].exists /\ events[1].state = "draft"
    /\ events[2].exists /\ events[2].state = "draft"
    /\ [user |-> 1, event |-> 1, role |-> "owner"] \in roles
    /\ 1 \in answer.rows
    /\ 2 \notin answer.rows

\* the sub-resource keys of get_id: every key but the event slug and user_id
SubResourceKeys == GetIdKeys \ {"identifier", "user_id"}

\* C3: when the sub-resource addressed by the one scoping key of the request
\* exists, get_id sets view_kwargs['id'] to its stored event_id, null when that is
\* null, whatever id view_kwargs already held.
C3_IdIsStoredEventId ==
    (/\ answer.op = "get_id"
     /\ \E k \in SubResourceKeys :
            /\ ScopeKeysOf(answer.kw) = {k}
            /\ sub[answer.kw[k]] # ABSENT)
        => /\ answer.err = "ok"
           /\ \A k \in ScopeKeysOf(answer.kw) : answer.rows = {sub[answer.kw[k]]}

\* C9: a list scoped to a target user and one role returns exactly the events on
\* which the target holds that role (the base predicate is replaced).
RoleOfScope ==
    [k \in RoleScopeKeys \ {"user_id"} |->
        CASE k = "user_owner_id" -> "owner"
          [] k = "user_organizer_id" -> "organizer"
          [] k = "user_coorganizer_id" -> "coorganizer"
          [] k = "user_track_organizer_id" -> "track_organizer"
          [] k = "user_registrar_id" -> "registrar"
          [] k = "user_moderator_id" -> "moderator"
          [] k = "user_marketer_id" -> "marketer"
          [] k = "user_sales_admin_id" -> "sales_admin"]

C9_RoleScopeReplacesBase ==
    (answer.op = "query" /\ answer.err = "ok")
        => \A k \in RoleScopeKeys \ {"user_id"} :
            ScopeKeysOf(answer.kw) = {k}
                => answer.rows =
                    {e \in EventIds :
                        /\ events[e].exists
                        /\ \E r \in roles : /\ r.user = answer.kw[k] /\ r.event = e
                                            /\ r.role = RoleOfScope[k]}

DateErrors == {ErrDate, ErrEndsAt, ErrStartsAt}

\* a payload that only sets deleted_at / that clears deleted_at and leaves the dates alone
PureSoftDelete(d) == d.deleted_at \in Times /\ d = [NoData EXCEPT !.deleted_at = d.deleted_at]
PureRestore(d) == d.deleted_at = NULL /\ d.starts_at = ABSENT /\ d.ends_at = ABSENT

\* C4: in before_update_object, soft-deleting an event whose starts_at is not in the
\* future raises no date validation error, and restoring such an event raises none
\* either and forces the state to draft, even when the payload asked for published.
C4_SoftDeleteAndRestoreSkipDateErrors ==
    [][(pc = "before_update_object" /\ req.obj.starts_at <= now)
        => /\ (req.obj.deleted_at = NULL /\ PureSoftDelete(req.data))
                => outcome' \notin DateErrors
           /\ (req.obj.deleted_at # NULL /\ PureRestore(req.data))
                => /\ outcome' \notin DateErrors
                   /\ outcome' = "pending" => req'.work.state = "draft"]_vars

\* C5: an update that changes deleted_at on an event with at least one order is
\* accepted only for a super admin; for every other caller it is rejected and
\* deleted_at is left unchanged.
C5_DeleteWithOrdersNeedsSuperAdmin ==
    [][(/\ pc = "before_update_object"
        /\ req.obj.orders >= 1
        /\ req.data.deleted_at # ABSENT
        /\ req.data.deleted_at # req.obj.deleted_at
        /\ ~req.caller.is_super_admin)
        => /\ outcome' # "pending"
           /\ req'.obj.deleted_at = req.obj.deleted_at]_vars

\* C6: for a caller who may create and publish, a create or patch whose payload has
\* state = published and an empty or missing name ends in the name conflict,
\* whatever the dates are.
C6_PublishWithoutNameIsConflict ==
    (/\ req.op \in {"post", "patch"}
     /\ req.data.state = "published"
     /\ req.data.name \in {AbsentStr, NoneStr, ""}
     /\ req.caller.can_create /\ req.caller.can_publish
     /\ req.op = "patch" => has_access_is_coorganizer(req.caller, roles, req.id))
        => pc = "respond" /\ outcome = ConflictName

\* C6 witness: the draft {starts_at: now+1, ends_at: now+2, name: ""} patched with
\* {state: published} is rejected with the name conflict.
C6_Witness ==
    /\ req.op = "patch" /\ pc = "respond" /\ outcome = ConflictName
    /\ req.data = [NoData EXCEPT !.state = "published"]
    /\ events[req.id].state = "draft" /\ events[req.id].name = ""
    /\ events[req.id].starts_at = now + 1 /\ events[req.id].ends_at = now + 2

\* C7: whenever validate_date runs and the effective dates (payload value, stored
\* value for an omitted one) are both present with starts_at >= ends_at, it raises
\* the ends-at error, soft-delete or restore or not.
EffStart(event, d) == IF d.starts_at = ABSENT /\ event.exists THEN event.starts_at
                      ELSE Get(d.starts_at)
EffEnd(event, d) == IF d.ends_at = ABSENT /\ event.exists THEN event.ends_at
                    ELSE Get(d.ends_at)
BadOrder(event, d) ==
    /\ EffStart(event, d) # NULL /\ EffEnd(event, d) # NULL
    /\ EffStart(event, d) >= EffEnd(event, d)

C7_BadOrderIsEndsAtError ==
    [][/\ (/\ pc = "before_update_object"
           /\ \/ Get(req.data.starts_at) # req.obj.starts_at
              \/ Get(req.data.ends_at) # req.obj.ends_at
              \/ (req.obj.state = "draft" /\ req.data.state = "published")
              \/ (req.obj.deleted_at # NULL /\ Get(req.data.deleted_at) = NULL)
           /\ BadOrder(req.obj, req.data))
            => outcome' = ErrEndsAt
       /\ (/\ pc = "idle" /\ req'.op = "post"
           /\ req'.data.state = "published"
           /\ req'.caller.can_create /\ req'.caller.can_publish
           /\ req'.data.name = "n"
           /\ BadOrder(NoEvent, req'.data))
            => outcome' = ErrEndsAt]_vars

\* C7 witness: a soft-delete whose effective dates are equal ends in the ends-at error.
C7_Witness ==
    /\ req.op = "patch" /\ pc = "respond" /\ outcome = ErrEndsAt
    /\ events[req.id].deleted_at = NULL /\ req.data.deleted_at \in Times
    /\ EffStart(events[req.id], req.data) = EffEnd(events[req.id], req.data)
    /\ EffStart(events[req.id], req.data) <= now

\* C4, the part that holds: on a pure soft-delete or a pure restore of an event
\* whose starts_at is not in the future the starts-at rejection never fires, and an
\* accepted restore has its state forced to draft.
C4_StartsAtRejectionNeverFires ==
    [][(/\ pc = "before_update_object" /\ req.obj.starts_at <= now
        /\ \/ (req.obj.deleted_at = NULL /\ PureSoftDelete(req.data))
           \/ (req.obj.deleted_at # NULL /\ PureRestore(req.data)))
        => /\ outcome' # ErrStartsAt
           /\ (req.obj.deleted_at # NULL /\ outcome' = "pending")
                => req'.work.state = "draft"]_vars

KindsOf(js) == {js[i].kind : i \in 1..Len(js)}
ExportKinds == {"export_xcal", "export_ical", "export_pentabarf"}

\* C8: a create of a published event with schedule_published_on and an
\* original_image_url submits exactly 4 jobs (the three exports and one resize),
\* records exactly 3 export-job handles and clears no export URL; a create that is
\* not published-and-scheduled submits no export job.
C8_CreateSubmitsFourJobs ==
    (req.op = "post" /\ pc = "respond" /\ outcome = "ok")
        => /\ (/\ req.data.state = "published"
               /\ Get(req.data.schedule_published_on) # NULL
               /\ req.data.original_image_url \notin {AbsentStr, NoneStr, ""})
                => /\ Len(jobs) = 4
                   /\ KindsOf(jobs) = ExportKinds \cup {"resize_event_images"}
                   /\ \A i \in 1..Len(jobs) : jobs[i].event_id = req.id
                   /\ Len(export_jobs) = 3
                   /\ KindsOf(export_jobs) = ExportKinds
                   /\ clears = 0
           /\ ~(req.data.state = "published" /\ Get(req.data.schedule_published_on) # NULL)
                => /\ KindsOf(jobs) \cap ExportKinds = {}
                   /\ export_jobs = <<>>

\* C8 witness: such a create has answered with its four jobs submitted.
C8_Witness ==
    /\ req.op = "post" /\ pc = "respond" /\ outcome = "ok"
    /\ req.data.state = "published" /\ req.data.schedule_published_on = 1
    /\ req.data.original_image_url = "a.png"
    /\ events[req.id].exists /\ events[req.id].state = "published"
    /\ Len(jobs) = 4

\* C10: a background job is submitted only once the write of its request is
\* committed: while jobs of the request are out, the request has passed its commit.
C10_JobsOnlyAfterCommit ==
    jobs # <<>> =>
        /\ pc \in {"respond"}
        /\ outcome = "ok"

ExportJobsOf(js) == SelectSeq(js, LAMBDA j : j.kind \in ExportKinds)
UrlsOf(event) == <<event.ical_url, event.xcal_url, event.pentabarf_url>>

\* C11: after a successful update either the event is published with
\* schedule_published_on set, exactly the three export jobs were submitted with one
\* tracking record each and no export URL changed, or the event is not in that
\* condition, its three export URLs are null in the stored row and no export job
\* was submitted.
C11_UpdateExportsOrClears ==
    (req.op = "patch" /\ pc = "respond" /\ outcome = "ok")
        => LET event == events[req.id]
           IN  IF published_and_scheduled(event)
               THEN /\ Len(ExportJobsOf(jobs)) = 3
                    /\ KindsOf(ExportJobsOf(jobs)) = ExportKinds
                    /\ Len(export_jobs) = 3
                    /\ KindsOf(export_jobs) = ExportKinds
                    /\ \A i \in 1..3 : export_jobs[i].event_id = req.id
                    /\ UrlsOf(event) = UrlsOf(req.obj)
                    /\ clears = 0
               ELSE /\ UrlsOf(event) = <<NoneStr, NoneStr, NoneStr>>
                    /\ clears = 1
                    /\ ExportJobsOf(jobs) = <<>>
                    /\ export_jobs = <<>>

\* C11 witness: an update that leaves the event unpublished has cleared export URLs
\* that were set before it.
C11_Witness ==
    /\ req.op = "patch" /\ pc = "respond" /\ outcome = "ok"
    /\ ~published_and_scheduled(events[req.id])
    /\ UrlsOf(req.obj) = <<"file", "file", "file">>
    /\ UrlsOf(events[req.id]) = <<NoneStr, NoneStr, NoneStr>>

\* C12: every stored event, drafts included, has starts_at < ends_at after any
\* sequence of accepted creations and updates.
C12_StoredDatesOrdered ==
    \A e \in EventIds : events[e].exists => events[e].starts_at < events[e].ends_at

\* C13: every stored event with state = published has a non-empty name after any
\* sequence of accepted creations and updates.
C13_PublishedHasName ==
    \A e \in EventIds :
        (events[e].exists /\ events[e].state = "published")
            => events[e].name \notin {"", NoneStr}

\* C14: whatever scoping keys it is given, get_id either returns (id resolved to an
\* event id or to null) or raises NotFound naming a parameter; it fails in no other way.
C14_GetIdReturnsOrNotFound ==
    answer.op = "get_id"
        => \/ answer.err = "ok"
           \/ \E k \in GetIdKeys : answer.err = NotFound(k)

OwnerRows(u, e) == {r \in roles : r.user = u /\ r.event = e /\ r.role = OWNER}
OwnerInvites(u, e) ==
    {i \in invites : i.user = u /\ i.event = e /\ i.role = OWNER /\ i.status = "accepted"}

\* C15: when user U has created event E there is exactly one role assignment
\* (U, E, owner) and one accepted owner invite for U, and every unscoped list by U
\* as an authenticated non-staff caller contains each event on which U still holds
\* the owner assignment, whatever its state.
C15_CreatorOwnsAndSeesEvent ==
    /\ (req.op = "post" /\ pc = "respond" /\ outcome = "ok")
        => /\ Cardinality(OwnerRows(req.caller.id, req.id)) = 1
           /\ Cardinality(OwnerInvites(req.caller.id, req.id)) = 1
    /\ (/\ answer.op = "query" /\ answer.kw = EmptyKw
        /\ answer.caller.id # NULL
        /\ ~answer.caller.is_admin /\ ~answer.caller.is_super_admin)
        => /\ answer.err = "ok"
           /\ \A e \in Stored(events) :
                OwnerRows(answer.caller.id, e) # {} => e \in answer.rows

\* C15 witness: the creator lists the events and gets the draft they created and
\* have updated since.
C15_Witness ==
    /\ answer.op = "query" /\ answer.kw = EmptyKw
    /\ answer.caller.id = 1 /\ ~answer.caller.is_admin /\ ~answer.caller.is_super_admin
    /\ events[1].exists /\ events[1].state = "draft"
    /\ events[1].original_image_url = "b.png"
    /\ OwnerRows(1, 1) # {} /\ OwnerInvites(1, 1) # {}
    /\ 1 \in answer.rows

\* a patch, about to enter before_update_object, to a non-deleted event whose
\* stored starts_at is not in the future, that neither supplies a future starts_at
\* nor sets deleted_at
StalePatch ==
    /\ pc = "before_update_object"
    /\ req.obj.deleted_at = NULL
    /\ req.obj.starts_at <= now
    /\ (req.data.starts_at = ABSENT \/ req.data.starts_at <= now)
    /\ Get(req.data.deleted_at) = NULL

OmitsDate(d) == d.starts_at = ABSENT \/ d.ends_at = ABSENT

\* C16, as stated: every such patch is rejected with the starts-at error and the
\* event is left unchanged (here already for stored events with starts_at < ends_at).
C16_StalePatchIsStartsAtError ==
    [][(StalePatch /\ req.obj.starts_at < req.obj.ends_at)
        => (outcome' = ErrStartsAt /\ events' = events)]_vars

\* C16, amended: every such patch whose payload omits starts_at or ends_at is
\* rejected by validate_date and leaves the event unchanged: with the date error
\* when the date it supplies is null, else with the ends-at error when the
\* effective starts_at >= ends_at, else with the starts-at error.
C16_StalePatchOmittingDateIsRejected ==
    [][(StalePatch /\ OmitsDate(req.data))
        => /\ outcome' = IF EffStart(req.obj, req.data) = NULL
                            \/ EffEnd(req.obj, req.data) = NULL THEN ErrDate
                         ELSE IF BadOrder(req.obj, req.data) THEN ErrEndsAt
                         ELSE ErrStartsAt
           /\ pc' = "respond"
           /\ events' = events]_vars

\* C16 witness: a patch that only renames a non-deleted event whose start has
\* passed is rejected with the starts-at error.
C16_Witness ==
    /\ req.op = "patch" /\ pc = "respond" /\ outcome = ErrStartsAt
    /\ req.data = [NoData EXCEPT !.name = "n"]
    /\ events[req.id].deleted_at = NULL
    /\ events[req.id].starts_at <= now
    /\ events[req.id].starts_at < events[req.id].ends_at

IsAdmin(caller) == caller.is_admin \/ caller.is_super_admin

\* C17: a patch to a soft-deleted event whose payload has no deleted_at is handled
\* by before_update_object exactly as the same payload with deleted_at = null:
\* same verdict, same event object, same payload changes; when the effective
\* starts_at is not in the future an accepted patch has its state coerced to
\* draft; for an admin caller an accepted patch has set event.deleted_at to null
\* (refused when the event has orders and the caller is no super admin), and the
\* committed row then has deleted_at = null.
C17_OmittedDeletedAtIsRestore ==
    [][/\ (/\ pc = "before_update_object"
           /\ req.obj.deleted_at # NULL
           /\ req.data.deleted_at = ABSENT)
            => LET r == before_update_object(req.obj, [req.work EXCEPT !.deleted_at = NULL],
                                             req.caller, now)
               IN  /\ outcome' = IF r.err = "ok" THEN "pending" ELSE r.err
                   /\ req'.obj = r.obj
                   /\ [req'.work EXCEPT !.deleted_at = NULL] = r.data
                   /\ (outcome' = "pending" /\ EffStart(req.obj, req.data) <= now)
                        => req'.work.state = "draft"
                   /\ (outcome' = "pending" /\ IsAdmin(req.caller))
                        => req'.obj.deleted_at = NULL
                   /\ (IsAdmin(req.caller) /\ ~req.caller.is_super_admin
                       /\ req.obj.orders # 0)
                        => outcome' # "pending"
       /\ (/\ pc = "update_object" /\ pc' = "after_update_object"
           /\ req.data.deleted_at = ABSENT
           /\ events[req.id].deleted_at # NULL
           /\ IsAdmin(req.caller))
            => events'[req.id].deleted_at = NULL]_vars

\* C17 witness: an admin's patch {state: published, ...} without deleted_at to a
\* soft-deleted event whose start has passed is about to be committed with
\* deleted_at = null and state = draft.
C17_Witness ==
    /\ pc = "update_object" /\ req.op = "patch"
    /\ req.data.deleted_at = ABSENT /\ req.data.state = "published"
    /\ IsAdmin(req.caller)
    /\ events[req.id].deleted_at # NULL
    /\ events[req.id].starts_at <= now
    /\ req.obj.deleted_at = NULL
    /\ req.work.state = "draft"

====
